---- MODULE Spec2Model ----
(***************************************************************************)
(* A model of XMPPReceiver/xmpp_receiver.py: the receiver that logs in to  *)
(* an XMPP server on behalf of an application, POSTs every received chat   *)
(* message to the application and answers presence subscriptions.          *)
(*                                                                         *)
(* The process is one thread.  pc is its position in the code; the calls   *)
(* into the xmpp and httplib libraries are steps whose outcome the         *)
(* environment chooses.  Text is a sequence of one-character strings, so   *)
(* that urlencode, strip and int are computed and not assumed.             *)
(***************************************************************************)
EXTENDS Integers, Sequences, FiniteSets, TLC

\* Bounds of the model.
MaxSessions == 2   \* client objects alive or remembered at once (slots are reused)
MaxBody == 1       \* longest message body, in characters

----------------------------------------------------------------------------
(* Text *)

StringsUpTo(A, n) == UNION {[1..k -> A] : k \in 0..n}

RECURSIVE Concat(_)
\* ''.join(parts)
Concat(parts) ==
  IF parts = <<>> THEN <<>> ELSE Head(parts) \o Concat(Tail(parts))

RECURSIVE Join(_, _)
\* sep.join(parts)
Join(parts, sep) ==
  IF parts = <<>> THEN <<>>
  ELSE IF Len(parts) = 1 THEN parts[1]
  ELSE parts[1] \o sep \o Join(Tail(parts), sep)

\* The one character of the model outside ASCII.
NonAscii == {"e_acute"}

\* str(u) of a unicode object: succeeds exactly when every character is ASCII.
IsAscii(s) == \A i \in 1..Len(s) : s[i] \notin NonAscii

Whitespace == {" ", "\n"}

RECURSIVE LStrip(_)
LStrip(s) ==
  IF s # <<>> /\ Head(s) \in Whitespace THEN LStrip(Tail(s)) ELSE s

RECURSIVE RStrip(_)
RStrip(s) ==
  IF s # <<>> /\ s[Len(s)] \in Whitespace THEN RStrip(SubSeq(s, 1, Len(s) - 1)) ELSE s

\* str.strip()
Strip(s) == RStrip(LStrip(s))

Digits == {"0", "1", "8"}

DigitVal(c) == CASE c = "0" -> 0 [] c = "1" -> 1 [] c = "8" -> 8

RECURSIVE DecimalValue(_)
DecimalValue(s) ==
  IF s = <<>> THEN 0
  ELSE 10 * DecimalValue(SubSeq(s, 1, Len(s) - 1)) + DigitVal(s[Len(s)])

\* int(s) succeeds: a non-empty run of decimal digits.
IsInt(s) == s # <<>> /\ \A i \in 1..Len(s) : s[i] \in Digits

----------------------------------------------------------------------------
(* urllib.urlencode, as called at line 98 *)

\* urllib.quote_plus on one character: letters and digits are kept, a space
\* becomes '+', everything else is %XX.
QuoteChar(c) ==
  CASE c = " " -> <<"+">>
    [] c = "&" -> <<"%", "2", "6">>
    [] c = "@" -> <<"%", "4", "0">>
    [] c = "/" -> <<"%", "2", "F">>
    [] c = "=" -> <<"%", "3", "D">>
    [] c = "+" -> <<"%", "2", "B">>
    [] c = "%" -> <<"%", "2", "5">>
    [] OTHER -> <<c>>

quote_plus(s) == Concat([i \in 1..Len(s) |-> QuoteChar(s[i])])

\* A Python value that is a text or None.
PyNone == [none |-> TRUE, text |-> <<>>]
PyStr(s) == [none |-> FALSE, text |-> s]

\* str(v)
StrOf(v) == IF v.none THEN <<"N", "o", "n", "e">> ELSE v.text

\* str(v) raises UnicodeEncodeError
StrRaises(v) == ~v.none /\ ~IsAscii(v.text)

\* urlencode(params) for params a sequence of <<key, value>> pairs in the
\* dictionary's iteration order: k=v joined by '&', both sides quoted.
urlencode(params) ==
  Join([i \in 1..Len(params) |->
          quote_plus(params[i][1]) \o <<"=">> \o quote_plus(StrOf(params[i][2]))],
       <<"&">>)

----------------------------------------------------------------------------
(* Values *)

\* A JID of the xmpp library: node@domain/resource.  The library refuses a JID
\* without a domain, so the JID with an empty domain stands for getFrom()
\* returning None (a stanza without a from attribute).
NoneJID == [node |-> <<>>, domain |-> <<>>, resource |-> <<>>]

Peers == {[node |-> <<"a">>, domain |-> <<"x">>, resource |-> <<"r">>]}

Froms == Peers \cup {NoneJID}

\* JID.__str__(wresource)
JIDStr(j, wresource) ==
  LET bare == IF j.node # <<>> THEN j.node \o <<"@">> \o j.domain ELSE j.domain
  IN IF wresource /\ j.resource # <<>> THEN bare \o <<"/">> \o j.resource ELSE bare

\* JID.getStripped()
getStripped(j) == JIDStr(j, FALSE)

AppIds == {<<"g">>}
LoginIps == {<<"h">>}

BodyChars == {"c", " ", "&"} \cup NonAscii
Bodies == {PyNone} \cup {PyStr(s) : s \in StringsUpTo(BodyChars, MaxBody)}

PresenceTypes == {"subscribe", "subscribed", "unavailable"}

\* What the port file may hold: nothing, a port, a port with whitespace around
\* it, and text that is no integer.
FileContents ==
  { <<>>,
    <<"8", "0">>,
    <<"8", "0", "8", "0", "\n">>,
    <<" ", "8", "1", " ">>,
    <<"x">>,
    <<"8", " ", "0">> }
Absent == [exists |-> FALSE, content |-> <<>>]
PortFiles == {Absent} \cup {[exists |-> TRUE, content |-> s] : s \in FileContents}

Statuses == {200, 500}

SessionStates == {"Disconnected", "Connecting", "Authenticated", "Lost"}
Slots == 1..MaxSessions

NoEvent == [kind |-> "none", from |-> NoneJID, to |-> <<>>, body |-> PyNone, typ |-> "none"]

VARIABLES
  appid,            \* sys.argv[1]
  login_ip,         \* sys.argv[2]
  pc,               \* the position of the process in the code
  exc,              \* the exception that ended the process, or "none"
  client,           \* the slot of the xmpp.Client of the running listen_for_messages
  sstate,           \* per slot, the state of its session
  handlers,         \* per slot, the stanza kinds with a registered handler
  announced,        \* per slot, whether sendInitPresence was called on it
  response,         \* the local response of listen_for_messages
  lost_connection,  \* the local lost_connection of listen_for_messages
  conflict,         \* whether the last Process raised xmpp.protocol.Conflict
  port_file,        \* the file at port_file_location, written by another process
  event,            \* the stanza client.Process is dispatching
  encoded_params,   \* the local encoded_params of xmpp_message
  app_port,         \* the local app_port of xmpp_message, 0 while unset
  last_port,        \* the app_port of the last message handled before this one, 0 if none
  resolution,       \* how reading the port went for this message
  connection,       \* the httplib.HTTPConnection of xmpp_message
  status,           \* response.status, 0 while there is none
  posts,            \* the connection.request calls made for this event
  stanzas           \* the conn.send calls made for this event

idvars == <<appid, login_ip>>
sessionvars == <<client, sstate, handlers, announced>>
loopvars == <<response, lost_connection, conflict>>
msgvars == <<encoded_params, app_port, resolution, connection, status, posts>>
vars == <<idvars, pc, exc, sessionvars, loopvars, port_file, last_port, event, msgvars, stanzas>>

\* self.my_jid
my_jid == appid \o <<"@">> \o login_ip

MessageEvents ==
  {[kind |-> "message", from |-> f, to |-> t, body |-> b, typ |-> "chat"] :
     f \in Froms, t \in {my_jid, my_jid \o <<"/", "r">>}, b \in Bodies}

PresenceEvents ==
  {[kind |-> "presence", from |-> f, to |-> my_jid, body |-> PyNone, typ |-> t] :
     f \in Froms, t \in PresenceTypes}

\* The locals of the handlers and what they did, before any handler ran.
FreshHandlerState ==
  /\ encoded_params' = <<>>
  /\ app_port' = 0
  /\ resolution' = "none"
  /\ connection' = "none"
  /\ status' = 0
  /\ posts' = <<>>
  /\ stanzas' = <<>>

\* XMPPReceiver(...) has been constructed; the main loop is about to start.
Init ==
  /\ appid \in AppIds
  /\ login_ip \in LoginIps
  /\ pc = "main"
  /\ exc = "none"
  /\ client = MaxSessions
  /\ sstate = [s \in Slots |-> "Disconnected"]
  /\ handlers = [s \in Slots |-> {}]
  /\ announced = [s \in Slots |-> FALSE]
  /\ response = "unset"
  /\ lost_connection = FALSE
  /\ conflict = FALSE
  /\ port_file \in PortFiles
  /\ last_port = 0
  /\ event = NoEvent
  /\ encoded_params = <<>>
  /\ app_port = 0
  /\ resolution = "none"
  /\ connection = "none"
  /\ status = 0
  /\ posts = <<>>
  /\ stanzas = <<>>

----------------------------------------------------------------------------
(* The environment: the process that writes the port file *)

WritePortFile(f) ==
  /\ f # port_file
  /\ port_file' = f
  /\ UNCHANGED <<idvars, pc, exc, sessionvars, loopvars, last_port, event, msgvars, stanzas>>

----------------------------------------------------------------------------
(* __main__ and listen_for_messages *)

\* The slot of the next xmpp.Client: the memory of a discarded client is reused.
NextSlot(c) == (c % MaxSessions) + 1

\* while True: RECEIVER.listen_for_messages(), up to client = xmpp.Client(...).
\* The call starts with its locals unbound.
NewClient ==
  /\ pc = "main"
  /\ client' = NextSlot(client)
  /\ sstate' = [sstate EXCEPT ![NextSlot(client)] = "Disconnected"]
  /\ handlers' = [handlers EXCEPT ![NextSlot(client)] = {}]
  /\ announced' = [announced EXCEPT ![NextSlot(client)] = FALSE]
  /\ response' = "unset"
  /\ lost_connection' = FALSE
  /\ conflict' = FALSE
  /\ pc' = "connect"
  /\ UNCHANGED <<idvars, exc, port_file, last_port, event, msgvars, stanzas>>

\* A variant in which the main loop catches the exit and goes round again.
RaiseSystemExit_Caught ==
  /\ pc' = "main"
  /\ exc' = exc

\* raise SystemExit(...): nothing catches it, the process ends.
RaiseSystemExit ==
  /\ pc' = "exit"
  /\ exc' = "SystemExit"

\* A variant without the authenticate step: a connected client goes straight on
\* to the handlers and the loop.
Connect_SkipAuth(ok) ==
  /\ pc = "connect"
  /\ IF ok
       THEN /\ sstate' = [sstate EXCEPT ![client] = "Connecting"]
            /\ pc' = "register"
            /\ exc' = exc
       ELSE /\ RaiseSystemExit
            /\ sstate' = sstate
  /\ UNCHANGED <<idvars, client, handlers, announced, loopvars, port_file, last_port, event, msgvars, stanzas>>

\* if not client.connect(...): raise SystemExit
Connect(ok) ==
  /\ pc = "connect"
  /\ IF ok
       THEN /\ sstate' = [sstate EXCEPT ![client] = "Connecting"]
            /\ pc' = "auth"
            /\ exc' = exc
       ELSE /\ RaiseSystemExit
            /\ sstate' = sstate
  /\ UNCHANGED <<idvars, client, handlers, announced, loopvars, port_file, last_port, event, msgvars, stanzas>>

\* if not client.auth(...): raise SystemExit
Auth(ok) ==
  /\ pc = "auth"
  /\ IF ok
       THEN /\ sstate' = [sstate EXCEPT ![client] = "Authenticated"]
            /\ pc' = "register"
            /\ exc' = exc
       ELSE /\ RaiseSystemExit
            /\ sstate' = sstate
  /\ UNCHANGED <<idvars, client, handlers, announced, loopvars, port_file, last_port, event, msgvars, stanzas>>

\* A variant that starts to poll without announcing its presence.
RegisterHandlers_NoAnnounce ==
  /\ pc = "register"
  /\ handlers' = [handlers EXCEPT ![client] = {"message", "presence"}]
  /\ pc' = "poll"
  /\ UNCHANGED <<idvars, exc, client, sstate, announced, loopvars, port_file, last_port, event, msgvars, stanzas>>

\* client.RegisterHandler('message', ...); client.RegisterHandler('presence', ...)
RegisterHandlers ==
  /\ pc = "register"
  /\ handlers' = [handlers EXCEPT ![client] = {"message", "presence"}]
  /\ pc' = "announce"
  /\ UNCHANGED <<idvars, exc, client, sstate, announced, loopvars, port_file, last_port, event, msgvars, stanzas>>

\* client.sendInitPresence(requestRoster=0)
sendInitPresence ==
  /\ pc = "announce"
  /\ announced' = [announced EXCEPT ![client] = TRUE]
  /\ pc' = "poll"
  /\ UNCHANGED <<idvars, exc, client, sstate, handlers, loopvars, port_file, last_port, event, msgvars, stanzas>>

\* A variant that takes every zero, the '0' of a quiet link too, for a closed
\* connection.
IsLost_AnyZero(r) == r \in {"None", "int0", "str0"}

\* A variant that takes None alone for a closed connection.
IsLost_OnlyNone(r) == r = "None"

\* lost_connection = response is None or response == 0
\* ('0', the library's answer for a live link with nothing to read, is neither)
IsLost(r) == r \in {"None", "int0"}

\* client.Process(timeout=1) returns r without dispatching to a handler of this
\* program: "str0" nothing arrived, "len" a stanza no handler of ours takes,
\* "None" or "int0" the connection is closed.
ProcessReturns(r) ==
  /\ pc = "poll"
  /\ response' = r
  /\ lost_connection' = IsLost(r)
  /\ conflict' = FALSE
  /\ event' = NoEvent
  /\ FreshHandlerState
  /\ pc' = "check"
  /\ UNCHANGED <<idvars, exc, sessionvars, port_file, last_port>>

\* client.Process(timeout=1) raises xmpp.protocol.Conflict
ProcessConflict ==
  /\ pc = "poll"
  /\ lost_connection' = TRUE
  /\ conflict' = TRUE
  /\ response' = response
  /\ event' = NoEvent
  /\ FreshHandlerState
  /\ pc' = "check"
  /\ UNCHANGED <<idvars, exc, sessionvars, port_file, last_port>>

\* A variant in which the next stanza is taken in while the handler of the last
\* one still waits for the backend.
ProcessDispatch_Reentrant(ev) ==
  /\ pc \in {"poll", "http_getresponse"}
  /\ ev.kind \in handlers[client]
  /\ event' = ev
  /\ FreshHandlerState
  /\ pc' = IF ev.kind = "message" THEN "xmpp_message" ELSE "xmpp_presence"
  /\ UNCHANGED <<idvars, exc, sessionvars, loopvars, port_file, last_port>>

\* client.Process(timeout=1) reads a stanza and calls its registered handler
ProcessDispatch(ev) ==
  /\ pc = "poll"
  /\ ev.kind \in handlers[client]
  /\ event' = ev
  /\ FreshHandlerState
  /\ pc' = IF ev.kind = "message" THEN "xmpp_message" ELSE "xmpp_presence"
  /\ UNCHANGED <<idvars, exc, sessionvars, loopvars, port_file, last_port>>

\* A variant whose return is not under the if: the loop body runs once, and the
\* main loop starts a new client while the old session is alive.
CheckLost_ReturnsAlways ==
  /\ pc = "check"
  /\ sstate' = IF lost_connection THEN [sstate EXCEPT ![client] = "Lost"] ELSE sstate
  /\ pc' = "main"
  /\ event' = NoEvent
  /\ last_port' = IF app_port # 0 THEN app_port ELSE last_port
  /\ FreshHandlerState
  /\ UNCHANGED <<idvars, exc, client, handlers, announced, loopvars, port_file>>

\* if lost_connection: return.  The handler is over: what it did is cleared, and
\* the port it used is remembered as the port of the previous message.
CheckLost ==
  /\ pc = "check"
  /\ IF lost_connection
       THEN /\ sstate' = [sstate EXCEPT ![client] = "Lost"]
            /\ pc' = "main"
       ELSE /\ sstate' = sstate
            /\ pc' = "poll"
  /\ event' = NoEvent
  /\ last_port' = IF app_port # 0 THEN app_port ELSE last_port
  /\ FreshHandlerState
  /\ UNCHANGED <<idvars, exc, client, handlers, announced, loopvars, port_file>>

\* The handler returns; Process returns the length of what it read.
HandlerReturns ==
  /\ pc' = "check"
  /\ response' = "len"
  /\ lost_connection' = IsLost("len")
  /\ conflict' = FALSE
  /\ exc' = exc

\* The handler raises e.  The library hands a handler's exception on to the
\* caller of Process; listen_for_messages catches Conflict only and the main
\* loop catches nothing, so the process ends with e.
HandlerRaises(e) ==
  /\ pc' = "crash"
  /\ exc' = e
  /\ UNCHANGED loopvars

----------------------------------------------------------------------------
(* xmpp_message *)

\* params, in the order a CPython 2.7 dictionary with the keys from, to and
\* body iterates (body, to, from).
Params(ev) ==
  << <<(<<"b", "o", "d", "y">>), ev.body>>,
     <<(<<"t", "o">>), PyStr(my_jid)>>,
     <<(<<"f", "r", "o", "m">>), PyStr(getStripped(ev.from))>> >>

\* Lines 90-98: the log lines, params and urlencode.  getFrom() of a stanza
\* without a sender is None; text outside ASCII cannot be formatted or encoded.
\* Both raise before anything else is done.
EncodeParams ==
  /\ pc = "xmpp_message"
  /\ IF event.from = NoneJID
       THEN /\ HandlerRaises("AttributeError")
            /\ encoded_params' = encoded_params
       ELSE IF StrRaises(event.body)
       THEN /\ HandlerRaises("UnicodeEncodeError")
            /\ encoded_params' = encoded_params
       ELSE /\ encoded_params' = urlencode(Params(event))
            /\ pc' = "resolve"
            /\ UNCHANGED <<exc, loopvars>>
  /\ UNCHANGED <<idvars, sessionvars, port_file, last_port, event, app_port, resolution,
                 connection, status, posts, stanzas>>

\* with open(port_file_location) as port_file: int(port_file.read().strip())
ReadPort(f) ==
  IF ~f.exists THEN [err |-> "IOError", port |-> 0]
  ELSE IF ~IsInt(Strip(f.content)) THEN [err |-> "ValueError", port |-> 0]
  ELSE [err |-> "none", port |-> DecimalValue(Strip(f.content))]

\* A variant that falls back to a default port when the file gives none.
ResolvePort_Default ==
  /\ pc = "resolve"
  /\ LET r == ReadPort(port_file)
     IN /\ app_port' = IF r.err = "none" THEN r.port ELSE 8080
        /\ resolution' = IF r.err = "none" THEN "ok" ELSE "failed"
  /\ pc' = "http_connection"
  /\ UNCHANGED <<idvars, exc, sessionvars, loopvars, port_file, last_port, event,
                 encoded_params, connection, status, posts, stanzas>>

\* A variant that reads the file for the first message only and keeps the port.
ResolvePort_Cached ==
  /\ pc = "resolve"
  /\ LET r == IF last_port # 0 THEN [err |-> "none", port |-> last_port]
                               ELSE ReadPort(port_file)
     IN IF r.err = "none"
          THEN /\ app_port' = r.port
               /\ resolution' = "ok"
               /\ pc' = "http_connection"
               /\ UNCHANGED <<exc, loopvars>>
          ELSE /\ app_port' = app_port
               /\ resolution' = "failed"
               /\ HandlerRaises(r.err)
  /\ UNCHANGED <<idvars, sessionvars, port_file, last_port, event, encoded_params,
                 connection, status, posts, stanzas>>

\* Lines 100-105, outside the try of line 107.
ResolvePort ==
  /\ pc = "resolve"
  /\ LET r == ReadPort(port_file)
     IN IF r.err = "none"
          THEN /\ app_port' = r.port
               /\ resolution' = "ok"
               /\ pc' = "http_connection"
               /\ UNCHANGED <<exc, loopvars>>
          ELSE /\ app_port' = app_port
               /\ resolution' = "failed"
               /\ HandlerRaises(r.err)
  /\ UNCHANGED <<idvars, sessionvars, port_file, last_port, event, encoded_params,
                 connection, status, posts, stanzas>>

\* connection = httplib.HTTPConnection(self.login_ip, app_port): no socket yet
NewHTTPConnection ==
  /\ pc = "http_connection"
  /\ connection' = "created"
  /\ pc' = "http_request"
  /\ UNCHANGED <<idvars, exc, sessionvars, loopvars, port_file, last_port, event,
                 encoded_params, app_port, resolution, status, posts, stanzas>>

\* The request of lines 111-112.
ThePost ==
  [host |-> login_ip, port |-> app_port, method |-> "POST",
   path |-> "/_ah/xmpp/message/chat/", body |-> encoded_params,
   content_type |-> "application/x-www-form-urlencoded"]

\* A variant whose try does not cover the request: its exception leaves the handler.
Request_Unguarded(outcome) ==
  /\ pc = "http_request"
  /\ posts' = Append(posts, ThePost)
  /\ connection' = IF outcome = "refused" THEN connection ELSE "open"
  /\ IF outcome = "sent"
       THEN /\ pc' = "http_getresponse"
            /\ UNCHANGED <<exc, loopvars>>
       ELSE HandlerRaises("socket.error")
  /\ UNCHANGED <<idvars, sessionvars, port_file, last_port, event, encoded_params,
                 app_port, resolution, status, stanzas>>

\* A variant that sends the request again when the first attempt raises.
Request_Retry(outcome) ==
  /\ pc = "http_request"
  /\ posts' = IF outcome = "sent" THEN Append(posts, ThePost)
                                  ELSE Append(Append(posts, ThePost), ThePost)
  /\ connection' = "open"
  /\ pc' = "http_getresponse"
  /\ UNCHANGED <<idvars, exc, sessionvars, loopvars, port_file, last_port, event,
                 encoded_params, app_port, resolution, status, stanzas>>

\* connection.request('POST', ...): "sent", or the connect is "refused", or the
\* socket is "broken" while sending.  A raise goes to the except of line 117,
\* which logs, and the handler returns.
Request(outcome) ==
  /\ pc = "http_request"
  /\ posts' = Append(posts, ThePost)
  /\ connection' = IF outcome = "refused" THEN connection ELSE "open"
  /\ IF outcome = "sent"
       THEN /\ pc' = "http_getresponse"
            /\ UNCHANGED <<exc, loopvars>>
       ELSE HandlerReturns
  /\ UNCHANGED <<idvars, sessionvars, port_file, last_port, event, encoded_params,
                 app_port, resolution, status, stanzas>>

\* response = connection.getresponse() returns with status st
GetResponse(st) ==
  /\ pc = "http_getresponse"
  /\ status' = st
  /\ pc' = "http_close"
  /\ UNCHANGED <<idvars, exc, sessionvars, loopvars, port_file, last_port, event,
                 encoded_params, app_port, resolution, connection, posts, stanzas>>

\* connection.getresponse() raises: line 117 logs, and the handler returns
GetResponseRaises ==
  /\ pc = "http_getresponse"
  /\ HandlerReturns
  /\ UNCHANGED <<idvars, sessionvars, port_file, last_port, event, msgvars, stanzas>>

\* connection.close(), and the handler returns
CloseConnection ==
  /\ pc = "http_close"
  /\ connection' = "closed"
  /\ HandlerReturns
  /\ UNCHANGED <<idvars, sessionvars, port_file, last_port, event, encoded_params,
                 app_port, resolution, status, posts, stanzas>>

----------------------------------------------------------------------------
(* xmpp_presence *)

\* xmpp.Presence(to=who, typ=typ), sent on the client conn
Presence(conn, who, typ) == [on |-> conn, to |-> who, typ |-> typ]

\* Lines 129-134: the log lines (getFrom() of a stanza without a sender is
\* None) and the test of the type.
PresenceType ==
  /\ pc = "xmpp_presence"
  /\ IF event.from = NoneJID
       THEN HandlerRaises("AttributeError")
       ELSE IF event.typ = "subscribe"
       THEN /\ pc' = "send_subscribed"
            /\ UNCHANGED <<exc, loopvars>>
       ELSE HandlerReturns
  /\ UNCHANGED <<idvars, sessionvars, port_file, last_port, event, msgvars, stanzas>>

\* A variant that asks for the peer's presence before acknowledging the peer.
SendSubscribed_Reciprocal ==
  /\ pc = "send_subscribed"
  /\ stanzas' = Append(stanzas, Presence(client, event.from, "subscribe"))
  /\ pc' = "send_subscribe"
  /\ UNCHANGED <<idvars, exc, sessionvars, loopvars, port_file, last_port, event, msgvars>>

\* conn.send(xmpp.Presence(to=who, typ='subscribed'))
SendSubscribed ==
  /\ pc = "send_subscribed"
  /\ stanzas' = Append(stanzas, Presence(client, event.from, "subscribed"))
  /\ pc' = "send_subscribe"
  /\ UNCHANGED <<idvars, exc, sessionvars, loopvars, port_file, last_port, event, msgvars>>

\* conn.send(xmpp.Presence(to=who, typ='subscribe')), and the handler returns
SendSubscribe ==
  /\ pc = "send_subscribe"
  /\ stanzas' = Append(stanzas, Presence(client, event.from, "subscribe"))
  /\ HandlerReturns
  /\ UNCHANGED <<idvars, sessionvars, port_file, last_port, event, msgvars>>

----------------------------------------------------------------------------
Next ==
  \/ \E f \in PortFiles : WritePortFile(f)
  \/ NewClient
  \/ \E ok \in BOOLEAN : Connect(ok)
  \/ \E ok \in BOOLEAN : Auth(ok)
  \/ RegisterHandlers
  \/ sendInitPresence
  \/ \E r \in {"str0", "len", "None", "int0"} : ProcessReturns(r)
  \/ ProcessConflict
  \/ \E ev \in MessageEvents \cup PresenceEvents : ProcessDispatch(ev)
  \/ CheckLost
  \/ EncodeParams
  \/ ResolvePort
  \/ NewHTTPConnection
  \/ \E outcome \in {"sent", "refused", "broken"} : Request(outcome)
  \/ \E st \in Statuses : GetResponse(st)
  \/ GetResponseRaises
  \/ CloseConnection
  \/ PresenceType
  \/ SendSubscribed
  \/ SendSubscribe

Spec == Init /\ [][Next]_vars

\* A step of the process when every connect and every authenticate succeeds.
ProgramStep ==
  \/ NewClient
  \/ Connect(TRUE)
  \/ Auth(TRUE)
  \/ RegisterHandlers
  \/ sendInitPresence
  \/ \E r \in {"str0", "len", "None", "int0"} : ProcessReturns(r)
  \/ ProcessConflict
  \/ \E ev \in MessageEvents \cup PresenceEvents : ProcessDispatch(ev)
  \/ CheckLost
  \/ EncodeParams
  \/ ResolvePort
  \/ NewHTTPConnection
  \/ \E outcome \in {"sent", "refused", "broken"} : Request(outcome)
  \/ \E st \in Statuses : GetResponse(st)
  \/ GetResponseRaises
  \/ CloseConnection
  \/ PresenceType
  \/ SendSubscribed
  \/ SendSubscribe

NextLive ==
  \/ \E f \in PortFiles : WritePortFile(f)
  \/ ProgramStep

\* The process is one thread that runs whenever it can: Process returns within
\* its timeout, and the calls to the backend return or raise.
LiveSpec == Init /\ [][NextLive]_vars /\ WF_vars(ProgramStep)

----------------------------------------------------------------------------
(* What the backend reads out of a form-encoded body *)

HasChar(s, c) == \E i \in 1..Len(s) : s[i] = c

FirstIndex(s, c) == CHOOSE i \in 1..Len(s) : s[i] = c /\ \A j \in 1..(i - 1) : s[j] # c

RECURSIVE SplitOn(_, _)
SplitOn(s, c) ==
  IF ~HasChar(s, c) THEN <<s>>
  ELSE LET i == FirstIndex(s, c)
       IN <<SubSeq(s, 1, i - 1)>> \o SplitOn(SubSeq(s, i + 1, Len(s)), c)

Unhex(a, b) ==
  CASE <<a, b>> = <<"2", "6">> -> "&"
    [] <<a, b>> = <<"4", "0">> -> "@"
    [] <<a, b>> = <<"2", "F">> -> "/"
    [] <<a, b>> = <<"3", "D">> -> "="
    [] <<a, b>> = <<"2", "B">> -> "+"
    [] <<a, b>> = <<"2", "5">> -> "%"
    [] OTHER -> "?"

RECURSIVE unquote_plus(_)
unquote_plus(s) ==
  IF s = <<>> THEN <<>>
  ELSE IF s[1] = "+" THEN <<" ">> \o unquote_plus(Tail(s))
  ELSE IF s[1] = "%" /\ Len(s) >= 3
    THEN <<Unhex(s[2], s[3])>> \o unquote_plus(SubSeq(s, 4, Len(s)))
  ELSE <<s[1]>> \o unquote_plus(Tail(s))

\* The fields of a form-encoded body, in order, as <<name, value>> pairs.
parse_qsl(s) ==
  LET parts == SplitOn(s, "&")
  IN [i \in 1..Len(parts) |->
        IF HasChar(parts[i], "=")
          THEN LET k == FirstIndex(parts[i], "=")
               IN <<unquote_plus(SubSeq(parts[i], 1, k - 1)),
                    unquote_plus(SubSeq(parts[i], k + 1, Len(parts[i])))>>
          ELSE <<unquote_plus(parts[i]), <<>>>>]

Range(q) == {q[i] : i \in DOMAIN q}

----------------------------------------------------------------------------
(* Properties *)

\* The last Process reported a lost connection: it raised Conflict, or it
\* returned None or 0.
LostReported == pc = "check" /\ (conflict \/ response \in {"None", "int0"})

\* C1: whenever a poll reports Lost, listen_for_messages returns without
\* raising; the next thing the main loop does is create a new client and call
\* connect on it, and authenticate follows on that client when the connect
\* succeeds.  No step lies in between, and no count limits the cycles.
C1_LostReconnects ==
  [][ /\ (LostReported /\ pc' # pc) =>
           (pc' = "main" /\ exc' = "none" /\ sstate'[client] = "Lost")
      /\ (pc = "main" /\ pc' # pc) =>
           (/\ pc' = "connect"
            /\ client' # client
            /\ sstate'[client'] = "Disconnected"
            /\ handlers'[client'] = {})
      /\ (pc = "connect" /\ pc' # pc /\ exc' = "none") =>
           (pc' = "auth" /\ client' = client)
    ]_vars

\* A third session is authenticating: the slot of the first one is in use
\* again after the other sessions were lost.
C1_Witness ==
  /\ pc = "auth"
  /\ client = 1
  /\ \A s \in Slots \ {1} : sstate[s] = "Lost"

\* C2: a failed connect or authenticate, in whatever cycle, ends the process
\* with SystemExit: the client has no handler, was never polled, and nothing
\* is connected or authenticated afterwards.
C2_FailureIsFatal ==
  /\ [](pc = "exit" =>
          /\ exc = "SystemExit"
          /\ sstate[client] \in {"Disconnected", "Connecting"}
          /\ handlers[client] = {}
          /\ ~announced[client]
          /\ response = "unset")
  /\ [][ /\ (pc = "connect" /\ pc' # pc /\ sstate'[client] # "Connecting") => pc' = "exit"
         /\ (pc = "auth" /\ pc' # pc /\ sstate'[client] # "Authenticated") => pc' = "exit"
         /\ pc = "exit" => (pc' = "exit" /\ UNCHANGED <<exc, sessionvars, loopvars, event, msgvars, stanzas>>)
       ]_vars

\* Authenticate failed on a session started after an earlier one was lost.
C2_Witness ==
  /\ pc = "exit"
  /\ sstate[client] = "Connecting"
  /\ \E s \in Slots : sstate[s] = "Lost"

\* C3: when the port cannot be resolved the message is dropped, the session
\* stays Authenticated and the process goes on.
C3_ResolutionFailureIsAbsorbed ==
  resolution = "failed" =>
    (pc # "crash" /\ exc = "none" /\ sstate[client] = "Authenticated")

\* C4: when the port cannot be resolved, no HTTP connection is opened and no
\* POST is issued for the message.
C4_NoPostWithoutPort ==
  /\ resolution = "failed" => (connection = "none" /\ posts = <<>> /\ status = 0)
  /\ (connection # "none" \/ posts # <<>>) => resolution = "ok"

C4_Witness == resolution = "failed" /\ event.kind = "message"

\* The request or the reading of the response raised: a request was made for
\* the message, the handler is over and no response status was read.
TransportRaised ==
  /\ event.kind = "message"
  /\ posts # <<>>
  /\ status = 0
  /\ pc # "http_getresponse"

\* C5: an exception of the HTTP exchange is caught in the handler: the message
\* is dropped with no second attempt, the session stays Authenticated and the
\* next poll is on the same session.
C5_TransportErrorIsCaught ==
  /\ [](TransportRaised =>
          /\ pc = "check"
          /\ exc = "none"
          /\ Len(posts) = 1
          /\ ~lost_connection
          /\ sstate[client] = "Authenticated")
  /\ [][(TransportRaised /\ pc' # pc) =>
          (pc' = "poll" /\ client' = client /\ sstate' = sstate /\ posts' = <<>>)]_vars

\* The response could not be read, or the socket broke while sending.
C5_Witness == TransportRaised /\ pc = "check" /\ connection = "open"

\* C6: the process ends only by the SystemExit of a failed connect or
\* authenticate; no other error ends it.
C6_OnlyFatalErrorsTerminate ==
  (pc \in {"exit", "crash"} \/ exc # "none") => (pc = "exit" /\ exc = "SystemExit")

\* The stanzas that answer a presence event.
ExpectedStanzas(ev, conn) ==
  IF ev.kind = "presence" /\ ev.typ = "subscribe"
    THEN << [on |-> conn, to |-> ev.from, typ |-> "subscribed"],
            [on |-> conn, to |-> ev.from, typ |-> "subscribe"] >>
    ELSE <<>>

\* C7: a subscribe from peer P is answered, on the session that delivered it,
\* by exactly two stanzas: subscribed to P, then subscribe to P.  Any other
\* presence event is answered by none.
C7_PresenceAnswers ==
  /\ Len(stanzas) <= Len(ExpectedStanzas(event, client))
  /\ \A i \in 1..Len(stanzas) : stanzas[i] = ExpectedStanzas(event, client)[i]
  /\ (pc = "check" /\ event.kind = "presence") => stanzas = ExpectedStanzas(event, client)

C7_Witness ==
  /\ pc = "check"
  /\ event.kind = "presence"
  /\ event.typ = "subscribe"
  /\ Len(stanzas) = 2

\* C8: a message whose port was resolved gets exactly one POST, to
\* login_ip:app_port at /_ah/xmpp/message/chat/, and never a second one,
\* whatever the status or the outcome of the exchange.
C8_ExactlyOnePost ==
  /\ Len(posts) <= 1
  /\ \A i \in 1..Len(posts) :
       /\ posts[i].method = "POST"
       /\ posts[i].host = login_ip
       /\ posts[i].port = app_port
       /\ posts[i].path = "/_ah/xmpp/message/chat/"
  /\ posts # <<>> => (resolution = "ok" /\ event.kind = "message")
  /\ (resolution = "ok" /\ pc \in {"http_getresponse", "http_close", "check", "crash"}) =>
       Len(posts) = 1

\* The one POST was answered with an error status.
C8_Witness ==
  /\ pc = "check"
  /\ event.kind = "message"
  /\ Len(posts) = 1
  /\ status = 500

\* The fields the claim gives the body of a POST for the message ev.
ClaimedFields(ev) ==
  { << <<"f", "r", "o", "m">>, getStripped(ev.from) >>,
    << <<"t", "o">>, appid \o <<"@">> \o login_ip >>,
    << <<"b", "o", "d", "y">>, ev.body.text >> }

\* C9: the body of every POST has exactly the fields from, to and body: the
\* sender without resource, the receiver's own appid@login_ip whatever the
\* message's addressee, and the text of the message.
C9_PostBodyFields ==
  \A i \in 1..Len(posts) :
    LET q == parse_qsl(posts[i].body)
    IN /\ Len(q) = 3
       /\ Range(q) = ClaimedFields(event)
       /\ ~event.body.none

\* C9, for the messages that have a body element: the three fields are as
\* claimed.
C9_FieldsOfMessagesWithText ==
  \A i \in 1..Len(posts) :
    ~event.body.none =>
      LET q == parse_qsl(posts[i].body)
      IN Len(q) = 3 /\ Range(q) = ClaimedFields(event)

\* The port a content of the port file stands for, 0 when for none.
PortWritten(f) ==
  IF ~f.exists THEN 0
  ELSE CASE f.content = <<"8", "0">> -> 80
         [] f.content = <<"8", "0", "8", "0", "\n">> -> 8080
         [] f.content = <<" ", "8", "1", " ">> -> 81
         [] OTHER -> 0

\* C10: every forward reads the port file anew: the port it resolves is the
\* one the file holds at that moment, whatever was resolved before, and the
\* POST goes to that port.
C10_PortReadAnew ==
  /\ [][ /\ (pc = "resolve" /\ pc' = "http_connection") =>
              (PortWritten(port_file) # 0 /\ app_port' = PortWritten(port_file))
         /\ (pc = "resolve" /\ pc' = "crash") => PortWritten(port_file) = 0
         /\ (pc = "http_request" /\ pc' # pc) =>
              (posts'[Len(posts')].port = app_port /\ app_port' = app_port)
       ]_vars

\* The file changed between two messages and the POST of the second goes to
\* the new port.
C10_Witness ==
  /\ posts # <<>>
  /\ last_port # 0
  /\ posts[1].port # last_port
  /\ posts[1].port = PortWritten(port_file)

\* The positions inside xmpp_message and xmpp_presence.
InMessageHandler ==
  pc \in {"xmpp_message", "resolve", "http_connection", "http_request",
          "http_getresponse", "http_close"}
InPresenceHandler == pc \in {"xmpp_presence", "send_subscribed", "send_subscribe"}

\* C11: a port is resolved, a POST is issued or a presence answer is sent only
\* while the session of the current client is Authenticated, never while it
\* is Disconnected, Connecting or Lost.
C11_ForwardOnlyWhenAuthenticated ==
  /\ (InMessageHandler \/ InPresenceHandler) => sstate[client] = "Authenticated"
  /\ (resolution # "none" \/ connection # "none" \/ posts # <<>> \/ stanzas # <<>>) =>
       sstate[client] = "Authenticated"
  /\ \A i \in 1..Len(stanzas) : sstate[stanzas[i].on] = "Authenticated"

\* A POST is under way on a session that replaced a lost one.
C11_Witness ==
  /\ pc = "http_getresponse"
  /\ posts # <<>>
  /\ sstate[client] = "Authenticated"
  /\ \E s \in Slots : sstate[s] = "Lost"

\* The last Process found nothing to read within its timeout.
TimedOut == pc = "check" /\ ~conflict /\ response = "str0"

\* C13: a poll that times out never ends the session; a session becomes Lost
\* exactly when the poll raised Conflict or returned None or 0, and the two
\* causes have the same outcome: the loop returns to the main loop.
C13_LostExactlyOnConflictOrClosed ==
  [][ /\ (TimedOut /\ pc' # pc) =>
           (pc' = "poll" /\ client' = client /\ sstate' = sstate)
      /\ (pc = "check" /\ pc' # pc) =>
           (LostReported <=> (pc' = "main" /\ sstate'[client] = "Lost"))
      /\ (pc = "check" /\ pc' # pc /\ ~LostReported) =>
           (pc' = "poll" /\ client' = client /\ sstate' = sstate)
      /\ \A s \in Slots :
           (sstate[s] # "Lost" /\ sstate'[s] = "Lost") => (s = client /\ LostReported)
    ]_vars

\* The poll after a timeout, on the same session.
C13_Witness ==
  /\ pc = "poll"
  /\ response = "str0"
  /\ sstate[client] = "Authenticated"

\* The steps of one session along Disconnected, Connecting, Authenticated, Lost.
SessionStep(a, b) ==
  \/ a = b
  \/ a = "Disconnected" /\ b = "Connecting"
  \/ a = "Connecting" /\ b = "Authenticated"
  \/ a = "Authenticated" /\ b = "Lost"

\* C14: a session moves only along Disconnected, Connecting, Authenticated,
\* Lost (a slot starts again at Disconnected only as a new client);
\* authenticate is attempted only on a connected session; the handlers are
\* registered and the presence is announced only on an authenticated session
\* and before its first poll; a Lost session is not polled again.
C14_SessionLifecycle ==
  /\ [](/\ pc = "connect" => sstate[client] = "Disconnected"
        /\ pc = "auth" => sstate[client] = "Connecting"
        /\ pc \in {"register", "announce"} =>
             (sstate[client] = "Authenticated" /\ response = "unset")
        /\ pc = "register" => (handlers[client] = {} /\ ~announced[client])
        /\ pc = "announce" => ~announced[client]
        /\ \A s \in Slots :
             /\ handlers[s] # {} => sstate[s] \in {"Authenticated", "Lost"}
             /\ announced[s] => handlers[s] = {"message", "presence"}
        /\ (pc \in {"poll", "check"} \/ InMessageHandler \/ InPresenceHandler) =>
             /\ sstate[client] = "Authenticated"
             /\ handlers[client] = {"message", "presence"}
             /\ announced[client]
        /\ sstate[client] = "Lost" => pc = "main")
  /\ [][\A s \in Slots :
          \/ SessionStep(sstate[s], sstate'[s])
          \/ pc = "main" /\ s = client' /\ s # client /\ sstate'[s] = "Disconnected"]_vars

\* A session went all the way and its loop has returned.
C14_Witness ==
  /\ pc = "main"
  /\ sstate[client] = "Lost"
  /\ announced[client]

\* A session that is connected or authenticated.
Live(s) == sstate[s] \in {"Connecting", "Authenticated"}

\* C16: at most one session is live, the one of the current client; a new
\* client is created only after the session before it was Lost (or as the
\* first one); every stanza is sent on the current client, and a discarded
\* client's session stays Lost until its slot holds a new client.
C16_OneLiveSession ==
  /\ [](/\ \A s \in Slots : Live(s) => s = client
        /\ \A i \in 1..Len(stanzas) : stanzas[i].on = client
        /\ (pc \in {"poll", "check"} \/ InMessageHandler \/ InPresenceHandler) =>
             sstate[client] # "Lost")
  /\ [][ /\ client' # client =>
              /\ pc = "main"
              /\ sstate[client] = "Lost" \/ \A s \in Slots : sstate[s] = "Disconnected"
         /\ \A s \in Slots :
              (s # client /\ s # client') => (sstate'[s] = sstate[s] /\ handlers'[s] = handlers[s])
       ]_vars

\* A new session is polled while the client before it lies discarded.
C16_Witness ==
  /\ pc = "poll"
  /\ \E s \in Slots \ {client} : sstate[s] = "Lost" /\ handlers[s] # {}

\* The current client is authenticated and about to be polled.
PolledAuthenticated == pc = "poll" /\ sstate[client] = "Authenticated"

\* C12: when every connect and authenticate succeeds, the receiver is again
\* and again at the poll of an authenticated session, whatever messages,
\* presence events, timeouts and lost connections arrive.
C12_AuthenticatedInfinitelyOften == []<>PolledAuthenticated

\* C12, as far as it holds: the receiver is again and again at the poll of an
\* authenticated session unless a handler raises.
C12_LiveUnlessHandlerRaises == ([]<>PolledAuthenticated) \/ <>(pc = "crash")

\* C15: events are handled one after the other.  A stanza is taken in only by
\* a poll; while a handler runs no other event is taken in and the client is
\* not polled; the next poll comes after the handler has returned; and while
\* the answer of the backend is awaited nothing else happens.
C15_SequentialHandling ==
  [][ /\ (event' # event /\ event'.kind # "none") =>
           (pc = "poll" /\ pc' \in {"xmpp_message", "xmpp_presence"})
      /\ (InMessageHandler \/ InPresenceHandler) =>
           (event' = event /\ client' = client /\ pc' # "poll")
      /\ (pc' = "poll" /\ pc # "poll") => pc \in {"announce", "check"}
      /\ pc = "http_getresponse" =>
           (pc' \in {"http_getresponse", "http_close", "check"} /\ Len(posts') = 1)
    ]_vars

\* The handler waits for the answer of the backend.
C15_Witness ==
  /\ pc = "http_getresponse"
  /\ connection = "open"
  /\ event.kind = "message"

\* C17: when the message handler has returned, the HTTP connection it opened
\* is closed, after a completed POST and after a raise of the request or of
\* the reading of the response alike.
C17_ConnectionClosedAtReturn ==
  (pc = "check" /\ event.kind = "message") => connection # "open"

\* C17, as far as it holds: the connection of a POST whose response was read is
\* closed when the handler returns.
C17_ClosedAfterResponse ==
  (pc = "check" /\ event.kind = "message" /\ status # 0) => connection = "closed"

====
